---------------------------- MODULE Spec2Model ----------------------------
(***************************************************************************)
(* Model of the Ent AntiSpam plugin (ent_antispam.py): the frame watcher   *)
(* that samples the host's frame counter on a repeating timer, the pile    *)
(* detection and rule-driven clearing done by perform_check, the reload    *)
(* command and the level listeners.                                        *)
(*                                                                         *)
(* Conventions.  Durations are integers in milliseconds.  Classnames and   *)
(* rule patterns are sequences of one-character strings, so that           *)
(* str.endswith / str.startswith / slicing are computed, not assumed.      *)
(* Python's None is the integer None (-1); frame counts and deltas are     *)
(* never negative.  A handler that raises stops where the exception is     *)
(* raised: the assignments made before that point stay.                    *)
(***************************************************************************)
EXTENDS Integers, Sequences, FiniteSets, TLC

(***************************************************************************)
(* Bounds of the model.                                                    *)
(***************************************************************************)
MaxFrame == 2
MaxChecks == 2
MaxDelays == 1
MaxEnts == 3
MaxRules == 2
MaxRadius == 1
MaxPileSize == 1
MaxIntervalSteps == 46
MaxMinFrames == 2

(***************************************************************************)
(* Program constants and the host's globals.                               *)
(***************************************************************************)
\* MIN_TICKS_PER_INTERVAL_AUTO_MULTIPLIER = 0.95, as the fraction 95 / 100.
MultiplierNum == 95
MultiplierDen == 100
\* global_vars.interval_per_tick, in milliseconds.
IntervalPerTick == 15
\* Python's None for the watcher's integer fields.
None == -1

(***************************************************************************)
(* Python floats.  A float is an IEEE 754 binary64 number; a positive,     *)
(* normal one is the record [m, e] of value m * 2^e with 2^52 <= m < 2^53. *)
(* The 53-bit m, and the wider numbers the operations pass through, are    *)
(* kept in limbs of 27 bits, most significant first, so that every step    *)
(* stays inside machine integers.  Every operation rounds to nearest, ties *)
(* to even, as float(), / and * do.                                        *)
(***************************************************************************)
LimbBase == 2^27
LimbTop == 2^26

Big(hi, lo) == [hi |-> hi, lo |-> lo]
BigGeq(x, y) == x.hi > y.hi \/ (x.hi = y.hi /\ x.lo >= y.lo)
BigSub(x, y) ==
    IF x.lo >= y.lo
    THEN Big(x.hi - y.hi, x.lo - y.lo)
    ELSE Big(x.hi - y.hi - 1, x.lo + LimbBase - y.lo)
\* 2 * x + bit
BigShiftIn(x, bit) ==
    LET l == 2 * x.lo + bit
    IN Big(2 * x.hi + l \div LimbBase, l % LimbBase)
BigHalf(x) == Big(x.hi \div 2, (x.hi % 2) * LimbTop + x.lo \div 2)
BigInc(x) ==
    IF x.lo + 1 = LimbBase THEN Big(x.hi + 1, 0) ELSE Big(x.hi, x.lo + 1)
\* bit i (0 is the least significant) of the 53-bit x
BigBit(x, i) ==
    IF i >= 27 THEN (x.hi \div 2^(i - 27)) % 2 ELSE (x.lo \div 2^i) % 2

\* q holds the first 54 significant bits of an exact positive value
\* (2^53 <= q < 2^54), e is the weight of its second lowest bit, sticky says
\* that the value has non-zero bits below q: the nearest float, ties to even.
RoundToFloat(q, e, sticky) ==
    LET m == BigHalf(q)
        up == q.lo % 2 = 1 /\ (sticky \/ m.lo % 2 = 1)
        r == IF up THEN BigInc(m) ELSE m
    IN IF r.hi >= LimbTop THEN [m |-> BigHalf(r), e |-> e + 1]
       ELSE [m |-> r, e |-> e]

\* The value of an expression, evaluated before it is used.
Only(S) == CHOOSE v \in S : TRUE

\* The loops below run their step a fixed number of times, by halves; a step
\* leaves a finished state as it is.  FloatSteps is enough for 54 bits after
\* up to 74 leading zero bits.
FloatSteps == 2^7

\* float("n/d" written in decimal), n > 0: binary long division of n by d until
\* 54 significant bits are out; j counts the bits after the binary point.
RatioStep(s) ==
    IF s.q.hi >= LimbTop THEN s
    ELSE LET bit == IF 2 * s.r >= s.d THEN 1 ELSE 0
         IN [q |-> BigShiftIn(s.q, bit), r |-> 2 * s.r - bit * s.d,
             d |-> s.d, j |-> s.j + 1]

RECURSIVE RatioSteps(_, _)
RatioSteps(s, n) ==
    IF n = 1 THEN RatioStep(s)
    ELSE Only({ RatioSteps(half, n - n \div 2) :
                    half \in { RatioSteps(s, n \div 2) } })

FloatOfRatio(n, d) ==
    LET b == RatioSteps([q |-> Big(0, n \div d), r |-> n % d, d |-> d, j |-> 0],
                        FloatSteps)
    IN RoundToFloat(b.q, 1 - b.j, b.r # 0)

\* a / b: binary long division of the mantissas.
QuotientStep(s) ==
    IF s.q.hi >= LimbTop THEN s
    ELSE LET r2 == BigShiftIn(s.r, 0)
             ge == BigGeq(r2, s.mb)
         IN [q |-> BigShiftIn(s.q, IF ge THEN 1 ELSE 0),
             r |-> IF ge THEN BigSub(r2, s.mb) ELSE r2,
             mb |-> s.mb, j |-> s.j + 1]

RECURSIVE QuotientSteps(_, _)
QuotientSteps(s, n) ==
    IF n = 1 THEN QuotientStep(s)
    ELSE Only({ QuotientSteps(half, n - n \div 2) :
                    half \in { QuotientSteps(s, n \div 2) } })

FloatDiv(a, b) ==
    LET ge == BigGeq(a.m, b.m)
        d == QuotientSteps([q |-> Big(0, IF ge THEN 1 ELSE 0),
                            r |-> IF ge THEN BigSub(a.m, b.m) ELSE a.m,
                            mb |-> b.m, j |-> 0],
                           FloatSteps)
    IN RoundToFloat(d.q, 1 - d.j + a.e - b.e, d.r.hi # 0 \/ d.r.lo # 0)

\* a * b: the 106-bit product of the mantissas in four limbs (p[1] the most
\* significant), by shift-and-add over the bits of y from bit i down.
ProductStep(s) ==
    IF s.i < 0 THEN s
    ELSE LET bit == BigBit(s.y, s.i)
             t4 == 2 * s.p[4] + bit * s.x.lo
             t3 == 2 * s.p[3] + bit * s.x.hi + t4 \div LimbBase
             t2 == 2 * s.p[2] + t3 \div LimbBase
             t1 == 2 * s.p[1] + t2 \div LimbBase
         IN [p |-> <<t1, t2 % LimbBase, t3 % LimbBase, t4 % LimbBase>>,
             x |-> s.x, y |-> s.y, i |-> s.i - 1]

RECURSIVE ProductSteps(_, _)
ProductSteps(s, n) ==
    IF n = 1 THEN ProductStep(s)
    ELSE Only({ ProductSteps(half, n - n \div 2) :
                    half \in { ProductSteps(s, n \div 2) } })

FloatMul(a, b) ==
    LET p == ProductSteps([p |-> <<0, 0, 0, 0>>, x |-> a.m, y |-> b.m, i |-> 52],
                          FloatSteps).p
        \* the product has 106 bits when p[1] >= 2^24, else 105: its first 54
        \* bits are p[1], p[2] and the top k bits of p[3].
        k == IF p[1] >= 2^24 THEN 2 ELSE 3
        low == p[2] * 2^k + p[3] \div 2^(27 - k)
        q == Big(p[1] * 2^k + low \div LimbBase, low % LimbBase)
        sticky == p[3] % 2^(27 - k) # 0 \/ p[4] # 0
    IN RoundToFloat(q, (54 - k) + 1 + a.e + b.e, sticky)

\* int(x) for a float x >= 0 below 2^26: the bits above the binary point.
IntOfFloat(x) ==
    LET k == 0 - x.e
    IN IF k >= 53 THEN 0
       ELSE IF k >= 27 THEN x.m.hi \div 2^(k - 27)
       ELSE x.m.hi * 2^(27 - k) + x.m.lo \div 2^k

\* Durations are in milliseconds: float("0.03") is FloatOfRatio(30, 1000).
MsPerSecond == 1000

\* int(float(interval) / interval_per_tick * 0.95), lines 45-49, evaluated
\* left to right, one rounding per operation.
AutoMinFrames(interval, tick) ==
    LET intervals == { FloatOfRatio(interval, MsPerSecond) }
        ticks == { FloatOfRatio(tick, MsPerSecond) }
        multipliers == { FloatOfRatio(MultiplierNum, MultiplierDen) }
        quotients == { FloatDiv(fi, ft) : fi \in intervals, ft \in ticks }
        products == { FloatMul(fq, fm) : fq \in quotients, fm \in multipliers }
    IN Only({ IntOfFloat(fp) : fp \in products })

(***************************************************************************)
(* Entities of the host.                                                   *)
(***************************************************************************)
NoPhysics == [exists |-> FALSE, is_static |-> FALSE, collision_enabled |-> FALSE,
              asleep |-> FALSE, motion_enabled |-> FALSE]
Dynamic == [exists |-> TRUE, is_static |-> FALSE, collision_enabled |-> TRUE,
            asleep |-> FALSE, motion_enabled |-> TRUE]
PhysicsStates ==
    { NoPhysics,
      Dynamic,
      [Dynamic EXCEPT !.is_static = TRUE],
      [Dynamic EXCEPT !.collision_enabled = FALSE],
      [Dynamic EXCEPT !.asleep = TRUE],
      [Dynamic EXCEPT !.motion_enabled = FALSE] }

\* gone: the host destroys the object behind the entity after EntityIter has
\* yielded it, so that a later host call through it raises.
Entity(i, cn, o, p) ==
    [index |-> i, classname |-> cn, origin |-> o, physics_object |-> p,
     gone |-> FALSE]

\* Vector.get_distance_sqr
GetDistanceSqr(a, b) ==
    (a[1] - b[1]) * (a[1] - b[1]) + (a[2] - b[2]) * (a[2] - b[2])
        + (a[3] - b[3]) * (a[3] - b[3])

\* is_static_entity
IsStaticEntity_never(entity) == FALSE
IsStaticEntity(entity) ==
    LET physics_obj == entity.physics_object IN
    \/ ~physics_obj.exists
    \/ physics_obj.is_static
    \/ ~physics_obj.collision_enabled
    \/ physics_obj.asleep
    \/ ~physics_obj.motion_enabled

(***************************************************************************)
(* Strings.                                                                *)
(***************************************************************************)
EndsWithStar(s) == Len(s) > 0 /\ s[Len(s)] = "*"
StartsWith(s, p) == Len(p) <= Len(s) /\ SubSeq(s, 1, Len(p)) = p
AllButLast(s) == SubSeq(s, 1, Len(s) - 1)

(***************************************************************************)
(* handle_entity: the rule loop.                                           *)
(***************************************************************************)
\* The two `continue` conditions: the rule does not apply to the classname.
RuleSkips_exact(rule, classname) == classname # rule.classname
RuleSkips(rule, classname) ==
    IF EndsWithStar(rule.classname)
    THEN ~StartsWith(classname, AllButLast(rule.classname))
    ELSE classname # rule.classname

\* What the first applicable rule does: return True after the host call, or break.
RuleOutcome(rule, i) ==
    IF rule.action = "remove"
    THEN [handled |-> TRUE, effect |-> "remove", consulted |-> i]
    ELSE IF rule.action = "freeze"
    THEN [handled |-> TRUE, effect |-> "freeze", consulted |-> i]
    ELSE [handled |-> FALSE, effect |-> "none", consulted |-> i]

RECURSIVE RuleLoop(_, _, _)
RuleLoop(classname, rules, i) ==
    IF i > Len(rules)
    THEN [handled |-> FALSE, effect |-> "none", consulted |-> Len(rules)]
    ELSE IF RuleSkips(rules[i], classname)
    THEN RuleLoop(classname, rules, i + 1)
    ELSE RuleOutcome(rules[i], i)

HandleEntity(entity, rules) == RuleLoop(entity.classname, rules, 1)

\* entity.remove() and entity.physics_object.motion_enabled = False on the host.
ApplyEffect(w, entity, effect) ==
    IF effect = "remove" THEN w \ {entity}
    ELSE IF effect = "freeze"
    THEN (w \ {entity}) \cup
         {[entity EXCEPT !.physics_object.motion_enabled = FALSE]}
    ELSE w

(***************************************************************************)
(* Configuration: the ConfigParser behind `config` and the rule list       *)
(* behind `entity_actions`.                                                *)
(***************************************************************************)
\* A ConfigParser that read nothing: every config[...][...] raises KeyError.
EmptyConfig ==
    [present |-> FALSE, interval |-> 0, min_frames_auto |-> FALSE,
     min_frames_value |-> 0, pile_radius |-> 0, max_entities_per_pile |-> 0,
     level_init_delay |-> 0]

Config(interval, auto, value, radius, max, delay) ==
    [present |-> TRUE, interval |-> interval, min_frames_auto |-> auto,
     min_frames_value |-> value, pile_radius |-> radius,
     max_entities_per_pile |-> max, level_init_delay |-> delay]

\* The tick durations of the hosts and the intervals of the configs the model
\* uses, and what "auto" resolves to for each of them.
TickDurations == {10, IntervalPerTick}
ConfigIntervals == {10, 30} \cup { 100 * k : k \in 1..MaxIntervalSteps }
MinFramesAuto ==
    [tick \in TickDurations |->
        [interval \in ConfigIntervals |-> AutoMinFrames(interval, tick)]]

VARIABLE interval_per_tick         \* host: global_vars.interval_per_tick

\* get_min_frames_per_interval, for a config that has the keys:
\* int(float(interval) / interval_per_tick * 0.95) in "auto" mode, else int(value).
GetMinFramesPerInterval(cfg) ==
    IF cfg.min_frames_auto
    THEN MinFramesAuto[interval_per_tick][cfg.interval]
    ELSE cfg.min_frames_value

(***************************************************************************)
(* perform_check.                                                          *)
(***************************************************************************)
\* Step 1: EntityIter() yields the entities in the host's order, which is by
\* ascending index.
RECURSIVE EntityIter(_)
EntityIter(w) ==
    IF w = {} THEN <<>>
    ELSE LET e == CHOOSE x \in w : \A y \in w : x.index <= y.index
         IN <<e>> \o EntityIter(w \ {e})

\* Step 2, first `continue`: the entity is outside the radius of the anchor.
OutOfRadius_ge(pile_origin, origin, pile_radius_sqr) ==
    GetDistanceSqr(pile_origin, origin) >= pile_radius_sqr
OutOfRadius(pile_origin, origin, pile_radius_sqr) ==
    GetDistanceSqr(pile_origin, origin) > pile_radius_sqr

\* Step 2, inner loop: the pile around one anchor, from entity k on.
RECURSIVE PileOf(_, _, _, _)
PileOf(pile_origin, ent_pos, k, pile_radius_sqr) ==
    IF k > Len(ent_pos) THEN <<>>
    ELSE IF OutOfRadius(pile_origin, ent_pos[k].origin, pile_radius_sqr)
    THEN PileOf(pile_origin, ent_pos, k + 1, pile_radius_sqr)
    ELSE IF IsStaticEntity(ent_pos[k])
    THEN PileOf(pile_origin, ent_pos, k + 1, pile_radius_sqr)
    ELSE <<ent_pos[k]>> \o PileOf(pile_origin, ent_pos, k + 1, pile_radius_sqr)

\* Step 2, the test that keeps a pile.
PileTooBig(pile, max_entities_per_pile) == Len(pile) > max_entities_per_pile

\* Step 2, outer loop: the piles to clear, from anchor k on.
RECURSIVE PilesToClear(_, _, _, _)
PilesToClear(ent_pos, k, pile_radius_sqr, max_entities_per_pile) ==
    IF k > Len(ent_pos) THEN <<>>
    ELSE LET pile == PileOf(ent_pos[k].origin, ent_pos, 1, pile_radius_sqr)
             rest == PilesToClear(ent_pos, k + 1, pile_radius_sqr,
                                  max_entities_per_pile)
         IN IF PileTooBig(pile, max_entities_per_pile)
            THEN <<pile>> \o rest
            ELSE rest

\* The members of the piles in the order step 3 visits them.
RECURSIVE Flatten(_)
Flatten(piles) ==
    IF piles = <<>> THEN <<>> ELSE Head(piles) \o Flatten(Tail(piles))

SeqToSet(s) == { s[i] : i \in 1..Len(s) }
Indexes(pile) == [i \in 1..Len(pile) |-> pile[i].index]

\* Step 3: `if index in handled_indexes: continue`.
AlreadyHandled_never(index, handled_indexes) == FALSE
AlreadyHandled(index, handled_indexes) == index \in SeqToSet(handled_indexes)

\* handle_entity makes its host calls (entity.remove(), the write through
\* entity.physics_object) without a try: when the host raises because the
\* object is gone, the exception leaves handle_entity and perform_check.  A
\* rule that makes no host call cannot raise.
HostRaises(entity, effect) == effect # "none" /\ entity.gone

\* Step 3: the loop over the members, from member k on.  acc carries
\* handled_indexes, handled_entities_count and the host's entities, with the
\* indexes handle_entity was called on (evaluated) and returned True for.
RECURSIVE ClearPiles(_, _, _, _)
ClearPiles(members, k, rules, acc) ==
    IF k > Len(members) THEN acc
    ELSE LET entity == members[k] IN
         IF AlreadyHandled(entity.index, acc.handled_indexes)
         THEN ClearPiles(members, k + 1, rules, acc)
         ELSE LET r == HandleEntity(entity, rules) IN
              IF HostRaises(entity, r.effect)
              THEN [acc EXCEPT !.raised = TRUE,
                               !.evaluated = Append(@, entity.index)]
              ELSE
              ClearPiles(members, k + 1, rules,
                [raised |-> FALSE,
                 handled_indexes |-> Append(acc.handled_indexes, entity.index),
                 handled_entities_count |->
                     acc.handled_entities_count + (IF r.handled THEN 1 ELSE 0),
                 world |-> ApplyEffect(acc.world, entity, r.effect),
                 evaluated |-> Append(acc.evaluated, entity.index),
                 handled |-> IF r.handled
                             THEN Append(acc.handled, entity.index)
                             ELSE acc.handled])

NoPass ==
    [invoked |-> FALSE, raised |-> FALSE, piles |-> <<>>, evaluated |-> <<>>,
     handled |-> <<>>, handled_entities_count |-> 0]

\* perform_check up to step 3: what it found and did, and the host's entities
\* afterwards.  With a config that lacks the keys, line 88 raises KeyError.
PerformCheckOn(ent_pos, w, cfg, rules) ==
    IF ~cfg.present
    THEN [log |-> [NoPass EXCEPT !.invoked = TRUE, !.raised = TRUE], world |-> w]
    ELSE LET pile_radius_sqr == cfg.pile_radius * cfg.pile_radius
             piles_to_clear ==
                 PilesToClear(ent_pos, 1, pile_radius_sqr,
                              cfg.max_entities_per_pile)
             done == ClearPiles(Flatten(piles_to_clear), 1, rules,
                        [raised |-> FALSE,
                         handled_indexes |-> <<>>, handled_entities_count |-> 0,
                         world |-> w, evaluated |-> <<>>, handled |-> <<>>])
         IN [log |-> [invoked |-> TRUE, raised |-> done.raised,
                      piles |-> [i \in 1..Len(piles_to_clear) |->
                                    Indexes(piles_to_clear[i])],
                      evaluated |-> done.evaluated,
                      handled |-> done.handled,
                      handled_entities_count |-> done.handled_entities_count],
             world |-> done.world]

PerformCheck(w, cfg, rules) == PerformCheckOn(EntityIter(w), w, cfg, rules)

\* Step 4: total_handled_entities_count += handled_entities_count.
PushHandled_one(total, handled_entities_count) == total + 1
PushHandled(total, handled_entities_count) == total + handled_entities_count

(***************************************************************************)
(* FrameWatcher.  The Repeat is its status and period (0 when stopped):    *)
(* Repeat.start on a running Repeat returns without doing anything.        *)
(***************************************************************************)
RepeatStart(r, interval) ==
    IF r.status = "running" THEN r
    ELSE [status |-> "running", interval |-> interval]
RepeatStop(r) == [status |-> "stopped", interval |-> 0]

\* FrameWatcher.__init__
NewFrameWatcher(cfg) ==
    [repeat |-> [status |-> "stopped", interval |-> 0],
     last_watch_frame |-> None,
     last_delta_frame |-> None,
     min_frames_per_interval |-> GetMinFramesPerInterval(cfg)]

\* FrameWatcher.start, for a config that has the keys.
FrameWatcherStart(fw, cfg) ==
    [fw EXCEPT !.repeat = RepeatStart(@, cfg.interval)]

\* FrameWatcher.stop
FrameWatcherStop_keep(fw) == [fw EXCEPT !.repeat = RepeatStop(@)]
FrameWatcherStop(fw) ==
    [fw EXCEPT !.repeat = RepeatStop(@), !.last_watch_frame = None]

\* FrameWatcher.reload_config, for a config that has the keys.
FrameWatcherReloadConfig(fw, cfg) ==
    FrameWatcherStart(
        FrameWatcherStop(
            [fw EXCEPT !.min_frames_per_interval = GetMinFramesPerInterval(cfg)]),
        cfg)

\* _watch: `if self._last_delta_frame <= self._min_frames_per_interval`.
LagDetected_lt(last_delta_frame, min_frames_per_interval) ==
    last_delta_frame < min_frames_per_interval
LagDetected(last_delta_frame, min_frames_per_interval) ==
    last_delta_frame <= min_frames_per_interval

(***************************************************************************)
(* reload_configs.  config.ini is readable ("ok", with its value), absent  *)
(* ("missing") or unparsable ("malformed"); entity_actions.json is         *)
(* readable ("ok", with its value) or not ("invalid": absent, so that      *)
(* open() raises, or unparsable, so that json.load raises).                *)
(***************************************************************************)
\* Lines 33-34: `config` is rebound to a new ConfigParser before the file is
\* read; ConfigParser.read skips a file that does not exist, and raises on
\* one without a section header, leaving the parser empty.
ReadConfig(src) == IF src.kind = "ok" THEN src.value ELSE EmptyConfig

\* Lines 36-39: open() or json.load raise before entity_actions is assigned.
LoadRules_clobber(old, src) == src.value
LoadRules(old, src) == IF src.kind = "ok" THEN src.value ELSE old

ReloadConfigs(old_rules, cfg_src, rules_src) ==
    IF cfg_src.kind = "malformed"
    THEN [config |-> ReadConfig(cfg_src), entity_actions |-> old_rules,
          raised |-> TRUE]
    ELSE [config |-> ReadConfig(cfg_src),
          entity_actions |-> LoadRules(old_rules, rules_src),
          raised |-> rules_src.kind # "ok"]

(***************************************************************************)
(* The values the model draws its inputs from.                             *)
(***************************************************************************)
AB == <<"A", "B">>
ABC == <<"A", "B", "C">>
X == <<"X">>
B == <<"B">>
AStar == <<"A", "*">>
Star == <<"*">>
ClassNames == {AB, ABC, X, B}
Patterns == {AStar, AB, X, Star}
RuleActions == {"remove", "freeze", "ignore"}
Rules == [classname : Patterns, action : RuleActions]
RuleLists == UNION { [1..n -> Rules] : n \in 0..MaxRules }

RulesOne == << [classname |-> AStar, action |-> "remove"],
               [classname |-> AB, action |-> "freeze"] >>
RulesTwo == << [classname |-> X, action |-> "ignore"],
               [classname |-> Star, action |-> "freeze"] >>
LoadableRules == {RulesOne, RulesTwo}

\* interval 30 ms, "auto" (1 frame), radius 1, more than 1 entity is a pile.
ConfigAuto == Config(30, TRUE, 0, 1, 1, 1000)
\* interval 45 ms, 2 frames, radius 2, more than 2 entities are a pile.
ConfigFixed == Config(45, FALSE, 2, 2, 2, 1000)
LoadableConfigs == {ConfigAuto, ConfigFixed}

ConfigSources ==
    { [kind |-> "ok", value |-> c] : c \in LoadableConfigs }
        \cup { [kind |-> k, value |-> EmptyConfig] : k \in {"missing", "malformed"} }
RuleSources ==
    { [kind |-> "ok", value |-> r] : r \in LoadableRules }
        \cup { [kind |-> "invalid", value |-> <<>>] }

P0 == <<0, 0, 0>>
P1 == <<0, 0, 1>>
P2 == <<0, 2, 0>>
Asleep == [Dynamic EXCEPT !.asleep = TRUE]

SceneHeap == { Entity(1, ABC, P0, Dynamic), Entity(2, AB, P0, Dynamic),
               Entity(3, X, P1, Dynamic) }
SceneCalm == { Entity(1, ABC, P0, Dynamic), Entity(2, X, P2, Asleep) }
Scenes == {SceneHeap, SceneCalm}

\* A set of entities with indexes S, entity i of kind f[i]: its classname,
\* origin, physics state and fate (gone or not).
WorldOf(S, f) ==
    { [Entity(i, f[i][1], f[i][2], f[i][3]) EXCEPT !.gone = f[i][4]] : i \in S }

(***************************************************************************)
(* State.                                                                  *)
(***************************************************************************)
VARIABLES
    config,                        \* module global `config`
    entity_actions,                \* module global `entity_actions`
    total_handled_entities_count,  \* module global
    total_checks_issued,           \* module global
    frame_watcher,                 \* the FrameWatcher instance
    frame_count,                   \* host: global_vars.frame_count
    world,                         \* host: the entities
    delays,                        \* host: pending Delay(..., frame_watcher.start)
    in_level,                      \* host: a level is loaded
    last_op,                       \* history: the handler that ran last
    pass,                          \* history: the perform_check of that handler
    awaiting_first_tick,           \* history: start() returned, no _watch since
    stale_sample,                  \* history: the sample predates the last reload
    passes_completed               \* history: passes since the last level init

progVars == <<config, entity_actions, total_handled_entities_count,
              total_checks_issued, frame_watcher>>
hostVars == <<interval_per_tick, frame_count, world, delays, in_level>>
histVars == <<last_op, pass, awaiting_first_tick, stale_sample, passes_completed>>
vars == <<progVars, hostVars, histVars>>

NoResult == [handled |-> FALSE, effect |-> "none", consulted |-> 0]
NoOp ==
    [op |-> "init", raised |-> FALSE,
     \* _watch
     current_frame |-> None, had_prev |-> FALSE, prev_frame |-> None,
     first_after_start |-> FALSE, stale |-> FALSE, fault |-> None,
     \* listener_on_level_init
     prior_checks |-> 0,
     \* reload command
     cfg_kind |-> "none", rules_kind |-> "none",
     config_new |-> FALSE, config_kept |-> FALSE,
     rules_new |-> FALSE, rules_kept |-> FALSE,
     \* handle_entity
     classname |-> <<>>, result |-> NoResult]
Op(name) == [NoOp EXCEPT !.op = name]

\* The sample is forgotten whenever last_watch_frame is None.
StaleAfter(fw, stale) == IF fw.last_watch_frame = None THEN FALSE ELSE stale

(***************************************************************************)
(* Initial state: the module has been imported (lines 137-142, 192).       *)
(***************************************************************************)
InitHistory ==
    /\ last_op = NoOp
    /\ pass = NoPass
    /\ awaiting_first_tick = FALSE
    /\ stale_sample = FALSE
    /\ passes_completed = 0

Init ==
    /\ config \in LoadableConfigs
    /\ entity_actions \in LoadableRules
    /\ total_handled_entities_count = 0
    /\ total_checks_issued = 0
    /\ interval_per_tick = IntervalPerTick
    /\ frame_watcher = NewFrameWatcher(config)
    /\ frame_count = 0
    /\ world \in Scenes
    /\ delays = 0
    /\ in_level \in BOOLEAN
    /\ InitHistory

(***************************************************************************)
(* Host: the frame counter advances.                                       *)
(***************************************************************************)
HostFrame ==
    /\ frame_count < MaxFrame
    /\ frame_count' = frame_count + 1
    /\ last_op' = Op("frame")
    /\ pass' = NoPass
    /\ UNCHANGED <<progVars, interval_per_tick, world, delays, in_level,
                   awaiting_first_tick, stale_sample, passes_completed>>

(***************************************************************************)
(* FrameWatcher._watch, fired by the Repeat; perform_check runs inside it. *)
(***************************************************************************)
WatchOn(ent_pos) ==
    /\ frame_watcher.repeat.status = "running"
    /\ total_checks_issued < MaxChecks
    /\ LET current_frame == frame_count
           had_prev == frame_watcher.last_watch_frame # None
           delta == IF had_prev
                    THEN current_frame - frame_watcher.last_watch_frame
                    ELSE frame_watcher.last_delta_frame
           lag == had_prev
                    /\ LagDetected(delta, frame_watcher.min_frames_per_interval)
           check == PerformCheckOn(ent_pos, world, config, entity_actions)
           raised == lag /\ check.log.raised
       IN /\ frame_watcher' =
                 [frame_watcher EXCEPT
                    !.last_delta_frame = delta,
                    !.last_watch_frame = IF raised THEN @ ELSE current_frame]
          /\ pass' = IF lag THEN check.log ELSE NoPass
          /\ world' = IF lag THEN check.world ELSE world
          /\ total_checks_issued' =
                 IF lag /\ ~raised THEN total_checks_issued + 1
                 ELSE total_checks_issued
          /\ total_handled_entities_count' =
                 IF lag /\ ~raised
                 THEN PushHandled(total_handled_entities_count,
                                  check.log.handled_entities_count)
                 ELSE total_handled_entities_count
          /\ passes_completed' =
                 IF lag /\ ~raised THEN passes_completed + 1
                 ELSE passes_completed
          /\ last_op' = [Op("watch") EXCEPT
                           !.raised = raised,
                           !.current_frame = current_frame,
                           !.had_prev = had_prev,
                           !.prev_frame = frame_watcher.last_watch_frame,
                           !.first_after_start = awaiting_first_tick,
                           !.stale = had_prev /\ stale_sample,
                           !.fault = IF raised /\ config.present
                                     THEN check.log.evaluated[
                                              Len(check.log.evaluated)]
                                     ELSE None,
                           !.prior_checks = total_checks_issued]
          /\ stale_sample' = IF raised THEN stale_sample ELSE FALSE
    /\ awaiting_first_tick' = FALSE
    /\ UNCHANGED <<config, entity_actions, interval_per_tick, frame_count,
                   delays, in_level>>

Watch == WatchOn(EntityIter(world))

(***************************************************************************)
(* The Delay set by listener_on_level_init fires: frame_watcher.start().   *)
(* float(config[...]) raises KeyError before Repeat.start is reached when  *)
(* the config lacks the keys.                                              *)
(***************************************************************************)
DelayedStart ==
    /\ delays > 0
    /\ delays' = delays - 1
    /\ frame_watcher' = IF config.present
                        THEN FrameWatcherStart(frame_watcher, config)
                        ELSE frame_watcher
    /\ awaiting_first_tick' = IF config.present THEN TRUE ELSE awaiting_first_tick
    /\ last_op' = [Op("start") EXCEPT !.raised = ~config.present]
    /\ pass' = NoPass
    /\ UNCHANGED <<config, entity_actions, total_handled_entities_count,
                   total_checks_issued, interval_per_tick, frame_count, world,
                   in_level, stale_sample, passes_completed>>

(***************************************************************************)
(* listener_on_level_init: the counters are reset, then the Delay is set   *)
(* (its float(config[...]) raises KeyError when the config lacks the keys).*)
(* The host has loaded the level's entities.                               *)
(***************************************************************************)
LevelInit_keep ==
    /\ ~in_level
    /\ delays < MaxDelays
    /\ in_level' = TRUE
    /\ world' \in Scenes
    /\ UNCHANGED <<total_checks_issued, total_handled_entities_count>>
    /\ delays' = IF config.present THEN delays + 1 ELSE delays
    /\ passes_completed' = 0
    /\ last_op' = [Op("level_init") EXCEPT !.raised = ~config.present,
                                           !.prior_checks = total_checks_issued]
    /\ pass' = NoPass
    /\ UNCHANGED <<config, entity_actions, frame_watcher, interval_per_tick,
                   frame_count, awaiting_first_tick, stale_sample>>

LevelInit ==
    /\ ~in_level
    /\ delays < MaxDelays
    /\ in_level' = TRUE
    /\ world' \in Scenes
    /\ total_checks_issued' = 0
    /\ total_handled_entities_count' = 0
    /\ delays' = IF config.present THEN delays + 1 ELSE delays
    /\ passes_completed' = 0
    /\ last_op' = [Op("level_init") EXCEPT !.raised = ~config.present,
                                           !.prior_checks = total_checks_issued]
    /\ pass' = NoPass
    /\ UNCHANGED <<config, entity_actions, frame_watcher, interval_per_tick,
                   frame_count, awaiting_first_tick, stale_sample>>

(***************************************************************************)
(* listener_on_level_end: frame_watcher.stop().                            *)
(***************************************************************************)
LevelEnd ==
    /\ in_level
    /\ in_level' = FALSE
    /\ frame_watcher' = FrameWatcherStop(frame_watcher)
    /\ stale_sample' = StaleAfter(frame_watcher', stale_sample)
    /\ last_op' = Op("level_end")
    /\ pass' = NoPass
    /\ UNCHANGED <<config, entity_actions, total_handled_entities_count,
                   total_checks_issued, interval_per_tick, frame_count, world,
                   delays,
                   awaiting_first_tick, passes_completed>>

(***************************************************************************)
(* `ent_antispam reload_configs`: reload_configs(), then                   *)
(* frame_watcher.reload_config(), whose get_min_frames_per_interval raises *)
(* KeyError, before stop(), when the config lacks the keys.                *)
(***************************************************************************)
ReloadCommand(cfg_src, rules_src) ==
    LET loaded == ReloadConfigs(entity_actions, cfg_src, rules_src)
        restarted == ~loaded.raised /\ loaded.config.present
    IN /\ config' = loaded.config
       /\ entity_actions' = loaded.entity_actions
       /\ frame_watcher' =
              IF restarted
              THEN FrameWatcherReloadConfig(frame_watcher, loaded.config)
              ELSE frame_watcher
       /\ awaiting_first_tick' = IF restarted THEN TRUE ELSE awaiting_first_tick
       /\ stale_sample' = IF restarted
                          THEN frame_watcher'.last_watch_frame # None
                          ELSE stale_sample
       /\ last_op' = [Op("reload") EXCEPT
                        !.raised = ~restarted,
                        !.had_prev = frame_watcher.last_watch_frame # None,
                        !.cfg_kind = cfg_src.kind,
                        !.rules_kind = rules_src.kind,
                        !.config_new = (cfg_src.kind = "ok"
                                          /\ config' = cfg_src.value),
                        !.config_kept = (config' = config),
                        !.rules_new = (rules_src.kind = "ok"
                                          /\ entity_actions' = rules_src.value),
                        !.rules_kept = (entity_actions' = entity_actions)]
       /\ pass' = NoPass
       /\ UNCHANGED <<total_handled_entities_count, total_checks_issued,
                      interval_per_tick, frame_count, world, delays, in_level,
                      passes_completed>>

Reload == \E cfg_src \in ConfigSources, rules_src \in RuleSources :
              ReloadCommand(cfg_src, rules_src)

Next ==
    \/ HostFrame
    \/ Watch
    \/ DelayedStart
    \/ LevelInit
    \/ LevelEnd
    \/ Reload

Spec == Init /\ [][Next]_vars

(***************************************************************************)
(* handle_entity on its own: one entity of each classname, every rule list *)
(* of at most MaxRules rules.                                              *)
(***************************************************************************)
InitRules ==
    /\ config = ConfigAuto
    /\ entity_actions \in RuleLists
    /\ total_handled_entities_count = 0
    /\ total_checks_issued = 0
    /\ interval_per_tick = IntervalPerTick
    /\ frame_watcher = NewFrameWatcher(config)
    /\ frame_count = 0
    /\ world \in { {Entity(1, cn, P0, Dynamic)} : cn \in ClassNames }
    /\ delays = 0
    /\ in_level = TRUE
    /\ InitHistory

HandleEntityCall ==
    /\ \E entity \in world :
          LET r == HandleEntity(entity, entity_actions)
          IN /\ world' = ApplyEffect(world, entity, r.effect)
             /\ last_op' = [Op("handle_entity") EXCEPT
                              !.classname = entity.classname, !.result = r]
    /\ pass' = NoPass
    /\ UNCHANGED <<progVars, interval_per_tick, frame_count, delays, in_level,
                   awaiting_first_tick, stale_sample, passes_completed>>

SpecRules == InitRules /\ [][HandleEntityCall]_vars

(***************************************************************************)
(* perform_check on every set of at most MaxEnts entities.  The watcher    *)
(* runs and holds the sample of frame 0, the frame counter has moved by    *)
(* one since, so the next _watch measures a delta of 1 and calls           *)
(* perform_check; one more check reaches MaxChecks.                        *)
(***************************************************************************)
WatcherWithSample(cfg) ==
    [FrameWatcherStart(NewFrameWatcher(cfg), cfg) EXCEPT !.last_watch_frame = 0]

InitCheck(configs, rule_lists, kinds) ==
    /\ config \in configs
    /\ entity_actions \in rule_lists
    /\ total_handled_entities_count = 0
    /\ total_checks_issued = MaxChecks - 1
    /\ interval_per_tick = IntervalPerTick
    /\ frame_watcher = WatcherWithSample(config)
    /\ frame_count = 1
    /\ \E S \in SUBSET (1..MaxEnts) :
          \E f \in [S -> kinds] :
              world = WorldOf(S, f)
    /\ delays = 0
    /\ in_level = TRUE
    /\ last_op = NoOp
    /\ pass = NoPass
    /\ awaiting_first_tick = FALSE
    /\ stale_sample = FALSE
    /\ passes_completed = MaxChecks - 1

\* Pile detection alone: no rules, every radius and pile size, every physics state.
InitPile ==
    InitCheck({ Config(30, TRUE, 0, r, m, 1000) :
                    r \in 0..MaxRadius, m \in 0..MaxPileSize },
              {<<>>}, {AB} \X {P0, P1} \X PhysicsStates \X {FALSE})

SpecPile == InitPile /\ [][Watch]_vars

\* The whole pass: rules, classnames, overlapping piles, and entities whose
\* object the host destroys before the pass acts on them.
InitPass ==
    InitCheck(LoadableConfigs, LoadableRules,
              ({ABC, X} \X {P0, P1} \X {Dynamic, Asleep} \X {FALSE})
                  \cup ({ABC, X} \X {P0, P1} \X {Dynamic} \X {TRUE}))

SpecPass == InitPass /\ [][Watch]_vars

(***************************************************************************)
(* The threshold on its own: `frame_watcher = FrameWatcher()` (line 192)   *)
(* for every tick duration of the host, every interval in "auto" mode and  *)
(* every integer from -MaxMinFrames to MaxMinFrames in explicit mode.      *)
(***************************************************************************)
ThresholdConfigs ==
    { Config(interval, TRUE, 0, 1, 1, 1000) : interval \in ConfigIntervals }
        \cup { Config(30, FALSE, value, 1, 1, 1000) :
                   value \in (0 - MaxMinFrames)..MaxMinFrames }

\* Before line 192 there is no FrameWatcher.
NoFrameWatcher ==
    [repeat |-> [status |-> "stopped", interval |-> 0],
     last_watch_frame |-> None,
     last_delta_frame |-> None,
     min_frames_per_interval |-> None]

InitThreshold ==
    /\ config \in ThresholdConfigs
    /\ entity_actions = <<>>
    /\ total_handled_entities_count = 0
    /\ total_checks_issued = 0
    /\ interval_per_tick \in TickDurations
    /\ frame_watcher = NoFrameWatcher
    /\ frame_count = 0
    /\ world = {}
    /\ delays = 0
    /\ in_level = FALSE
    /\ InitHistory

Construct ==
    /\ last_op.op = "init"
    /\ frame_watcher' = NewFrameWatcher(config)
    /\ last_op' = Op("construct")
    /\ UNCHANGED <<config, entity_actions, total_handled_entities_count,
                   total_checks_issued, hostVars, pass, awaiting_first_tick,
                   stale_sample, passes_completed>>

SpecThreshold == InitThreshold /\ [][Construct]_vars

(***************************************************************************)
(* perform_check when EntityIter() yields the same entities in any order.  *)
(***************************************************************************)
Orders(w) ==
    { s \in [1..Cardinality(w) -> w] :
          \A i, j \in 1..Cardinality(w) : s[i] = s[j] => i = j }

WatchAnyOrder == \E ent_pos \in Orders(world) : WatchOn(ent_pos)

SpecOrder == InitPass /\ [][WatchAnyOrder]_vars

(***************************************************************************)
(* Properties.                                                             *)
(***************************************************************************)
PassRan == last_op.op = "watch" /\ pass.invoked
PassCompleted == PassRan /\ ~pass.raised

\* C1: in a _watch that finds a previous sample, perform_check is called
\* when current_frame - previous sample <= min_frames_per_interval (equality
\* included) and is not called when the difference is larger; it is not
\* called in a _watch without a previous sample, nor by any other handler.
C1_PassIffLagOnTick ==
    /\ last_op.op = "watch" =>
          (pass.invoked <=>
              /\ last_op.had_prev
              /\ last_op.current_frame - last_op.prev_frame
                     <= frame_watcher.min_frames_per_interval)
    /\ last_op.op # "watch" => ~pass.invoked

C1_Witness_LagAtEquality ==
    /\ PassRan
    /\ last_op.had_prev
    /\ last_op.current_frame - last_op.prev_frame
           = frame_watcher.min_frames_per_interval
    /\ frame_watcher.min_frames_per_interval > 0

\* C2: the first _watch after a call of start() that returned finds no
\* previous sample and does not call perform_check.
C2_FirstTickAfterStartIsBaseline ==
    (last_op.op = "watch" /\ last_op.first_after_start) =>
        (~last_op.had_prev /\ ~pass.invoked)

(***************************************************************************)
(* C3: what the claim calls the neighbourhood of an anchor, by the spec's  *)
(* definition of a static object.                                          *)
(***************************************************************************)
NotStatic(b) ==
    /\ b.physics_object.exists
    /\ ~b.physics_object.is_static
    /\ b.physics_object.collision_enabled
    /\ ~b.physics_object.asleep
    /\ b.physics_object.motion_enabled

Neighbourhood(a, w, r) ==
    { b \in w : /\ NotStatic(b)
                /\ GetDistanceSqr(a.origin, b.origin) <= r * r }

OversizedAnchors(w, r, max) ==
    { a \in w : Cardinality(Neighbourhood(a, w, r)) > max }

\* C3: perform_check emits one pile per anchor (static or not) whose set of
\* non-static entities within the radius has more than max_entities_per_pile
\* members, in the order of the anchors, and that pile's members are exactly
\* that set, each once; so no emitted pile has max_entities_per_pile members
\* or fewer, and none has a static member.
C3_PilesAreOversizedNeighbourhoods ==
    PassCompleted =>
        LET r == config.pile_radius
            max == config.max_entities_per_pile
            big == OversizedAnchors(world, r, max)
            rank(a) == Cardinality({ b \in big : b.index <= a.index })
        IN /\ Len(pass.piles) = Cardinality(big)
           /\ \A a \in big :
                 LET members == { b.index : b \in Neighbourhood(a, world, r) }
                 IN /\ SeqToSet(pass.piles[rank(a)]) = members
                    /\ Len(pass.piles[rank(a)]) = Cardinality(members)
           /\ \A k \in 1..Len(pass.piles) :
                 /\ Len(pass.piles[k]) > max
                 /\ \A i \in SeqToSet(pass.piles[k]) :
                       \E b \in world : b.index = i /\ NotStatic(b)

\* Three anchors, one of them static, around the same two moving entities.
C3_Witness_StaticAnchor ==
    /\ PassCompleted
    /\ Cardinality(world) = 3
    /\ Len(pass.piles) = 3
    /\ \A k \in 1..3 : Len(pass.piles[k]) = 2
    /\ config.pile_radius = 1
    /\ \E a, b \in world : a.origin # b.origin

(***************************************************************************)
(* C4: the rule the claim says decides, by the spec's matching.            *)
(***************************************************************************)
PatternMatches(pattern, classname) ==
    \/ pattern = classname
    \/ /\ Len(pattern) >= 1
       /\ pattern[Len(pattern)] = "*"
       /\ Len(classname) >= Len(pattern) - 1
       /\ \A i \in 1..(Len(pattern) - 1) : classname[i] = pattern[i]

FirstMatch(rules, classname) ==
    LET M == { i \in 1..Len(rules) : PatternMatches(rules[i].classname, classname) }
    IN IF M = {} THEN 0 ELSE CHOOSE i \in M : \A j \in M : i <= j

\* C4: handle_entity is decided by the first rule whose pattern matches the
\* classname: "remove" returns True and removes the entity, "freeze" returns
\* True and disables its motion, any other action returns False, changes
\* nothing and looks at no later rule; without a matching rule it returns
\* False and changes nothing.  [(A*, remove), (AB, freeze)] on ABC removes;
\* a first rule (X, ignore) on X gives False whatever follows.
C4_FirstMatchingRuleDecides ==
    last_op.op = "handle_entity" =>
        LET cn == last_op.classname
            r == last_op.result
            fm == FirstMatch(entity_actions, cn)
            before == Entity(1, cn, P0, Dynamic)
            frozen == [before EXCEPT !.physics_object.motion_enabled = FALSE]
        IN /\ fm = 0 =>
                 ~r.handled /\ world = {before} /\ r.effect = "none"
           /\ fm # 0 =>
                 /\ r.consulted = fm
                 /\ entity_actions[fm].action = "remove" =>
                        r.handled /\ r.effect = "remove" /\ world = {}
                 /\ entity_actions[fm].action = "freeze" =>
                        r.handled /\ r.effect = "freeze" /\ world = {frozen}
                 /\ entity_actions[fm].action \notin {"remove", "freeze"} =>
                        ~r.handled /\ r.effect = "none" /\ world = {before}
           /\ (entity_actions = RulesOne /\ cn = ABC) =>
                 r.handled /\ r.effect = "remove"
           /\ (Len(entity_actions) >= 1
                 /\ entity_actions[1] = [classname |-> X, action |-> "ignore"]
                 /\ cn = X) => ~r.handled /\ r.consulted = 1

C4_Witness_PrefixBeforeExact ==
    /\ last_op.op = "handle_entity"
    /\ entity_actions = RulesOne
    /\ last_op.classname = ABC
    /\ last_op.result.effect = "remove"
    /\ world = {}

C6_CountersMoveOnlyByPassAndReset ==
    [][ /\ (last_op'.op = "watch" /\ pass'.invoked /\ ~pass'.raised) =>
              /\ total_checks_issued' = total_checks_issued + 1
              /\ total_handled_entities_count' =
                     total_handled_entities_count
                         + Cardinality(SeqToSet(pass'.handled))
        /\ (~(last_op'.op = "watch" /\ pass'.invoked /\ ~pass'.raised)
               /\ last_op'.op # "level_init") =>
              UNCHANGED <<total_checks_issued, total_handled_entities_count>>
        /\ last_op'.op # "level_init" =>
              /\ total_checks_issued' >= total_checks_issued
              /\ total_handled_entities_count' >= total_handled_entities_count
      ]_vars

\* A second pass completes, handling nothing, after the first one handled two.
C6_Witness_SecondPassAfterTwoHandled ==
    /\ PassCompleted
    /\ total_checks_issued = 2
    /\ Len(pass.handled) = 0
    /\ total_handled_entities_count = 2

\* C7: right after listener_on_level_init both counters are 0, whatever
\* was counted before; and total_checks_issued is always the number of
\* perform_check calls completed since the last level init.
C7_CountersResetAtLevelInit ==
    /\ last_op.op = "level_init" =>
          total_checks_issued = 0 /\ total_handled_entities_count = 0
    /\ total_checks_issued = passes_completed

C7_Witness_ResetAfterPasses ==
    /\ last_op.op = "level_init"
    /\ last_op.prior_checks > 0

\* C8: after the reload command either both config and entity_actions are
\* the newly read versions (both files readable), or both are what they
\* were before the command (either file absent or unparsable).
C8_ReloadIsAtomic ==
    last_op.op = "reload" =>
        IF last_op.cfg_kind = "ok" /\ last_op.rules_kind = "ok"
        THEN last_op.config_new /\ last_op.rules_new
        ELSE last_op.config_kept /\ last_op.rules_kept

\* C9: a reload command whose rule file cannot be opened or parsed leaves
\* entity_actions as it was, rules and order, so handle_entity decides every
\* classname as before.
C9_InvalidRulesKeepRuleList ==
    [][ (last_op'.op = "reload" /\ last_op'.rules_kind = "invalid") =>
           /\ entity_actions' = entity_actions
           /\ \A cn \in ClassNames :
                 RuleLoop(cn, entity_actions', 1) = RuleLoop(cn, entity_actions, 1)
      ]_vars

\* The config was replaced by that reload and the rules were not.
C9_Witness_InvalidRulesAfterNewConfig ==
    /\ last_op.op = "reload"
    /\ last_op.rules_kind = "invalid"
    /\ last_op.cfg_kind = "ok"
    /\ ~last_op.config_kept
    /\ entity_actions = RulesOne

\* C10: after a reload command that raised nothing the Repeat runs at the
\* interval of the new config, min_frames_per_interval is the value resolved
\* from the new config and last_watch_frame is None; and no _watch measures a
\* delta against a sample taken before the last such reload.
C10_ReloadRestartsWatcher ==
    /\ (last_op.op = "reload" /\ ~last_op.raised) =>
          /\ frame_watcher.repeat =
                 [status |-> "running", interval |-> config.interval]
          /\ frame_watcher.min_frames_per_interval
                 = GetMinFramesPerInterval(config)
          /\ frame_watcher.last_watch_frame = None
    /\ last_op.op = "watch" => ~last_op.stale
    /\ ~stale_sample

\* The watcher held a sample and ran at another interval and threshold.
C10_Witness_ReloadWhileSampling ==
    /\ last_op.op = "reload"
    /\ ~last_op.raised
    /\ last_op.had_prev
    /\ ~last_op.config_kept
    /\ frame_watcher.last_delta_frame # None


\* C11: a perform_check in which the host call on one pile member fails is
\* not aborted: handle_entity is still called on every member of the emitted
\* piles and total_checks_issued is one more than before the tick.
C11_PassCompletesDespiteFailedAction ==
    (PassRan /\ last_op.fault # None) =>
        LET members == UNION { SeqToSet(pass.piles[k]) : k \in 1..Len(pass.piles) }
        IN /\ ~pass.raised
           /\ SeqToSet(pass.evaluated) = members
           /\ total_checks_issued = last_op.prior_checks + 1

\* C12: in "auto" mode the threshold the FrameWatcher is constructed with is
\* floor(interval / interval_per_tick * 0.95), the floor of the exact value,
\* for every interval and tick duration; in explicit mode it is the
\* configured integer.
C12_AutoThresholdIsExactFloor ==
    last_op.op = "construct" =>
        frame_watcher.min_frames_per_interval =
            IF config.min_frames_auto
            THEN (config.interval * MultiplierNum)
                     \div (interval_per_tick * MultiplierDen)
            ELSE config.min_frames_value

\* C13: every _watch ends with _last_watch_frame equal to the frame count it
\* read at its start, with or without a previous sample and however the
\* perform_check it called ended.
C13_TickStoresCurrentFrame ==
    last_op.op = "watch" =>
        frame_watcher.last_watch_frame = last_op.current_frame

\* C14: after FrameWatcher.stop(), as listener_on_level_end calls it, running
\* or not, the sampled state is cleared: _last_watch_frame and
\* _last_delta_frame are both None.
C14_StopClearsSampledState ==
    last_op.op = "level_end" =>
        /\ frame_watcher.last_watch_frame = None
        /\ frame_watcher.last_delta_frame = None

\* C15: the threshold the FrameWatcher holds is a positive integer, for
\* every explicit value and every "auto" resolution of a config that loads.
C15_ThresholdIsPositive ==
    last_op.op = "construct" => frame_watcher.min_frames_per_interval >= 1

PileSets(piles) == { SeqToSet(piles[k]) : k \in 1..Len(piles) }

\* C16: whatever the order in which the entities are enumerated, with the
\* same pile_radius and max_entities_per_pile perform_check emits the same
\* set of piles (each as the set of its members' indexes) and calls
\* handle_entity on the same set of indexes as with the host's order.
C16_DetectionIsOrderIndependent ==
    [][ (last_op'.op = "watch" /\ pass'.invoked) =>
            LET ref == PerformCheck(world, config, entity_actions).log
            IN /\ PileSets(pass'.piles) = PileSets(ref.piles)
               /\ SeqToSet(pass'.evaluated) = SeqToSet(ref.evaluated)
      ]_vars

\* The part of it that is about pile detection alone.
C16_PileSetsAreOrderIndependent ==
    [][ (last_op'.op = "watch" /\ pass'.invoked) =>
            PileSets(pass'.piles)
                = PileSets(PerformCheck(world, config, entity_actions).log.piles)
      ]_vars

\* C17: _watch fires only while a level is loaded and the Delay that
\* listener_on_level_init set for it has fired: never between
\* listener_on_level_end and the delayed start of the next level.
C17_TicksOnlyInStartedSession ==
    last_op.op = "watch" => (in_level /\ delays = 0)

\* C18: whenever the Repeat is running, the threshold _watch compares against
\* is the one get_min_frames_per_interval resolves from the current config
\* (what the stats command reports) and the Repeat's period is the current
\* config's interval.
C18_WatcherFollowsActiveConfig ==
    frame_watcher.repeat.status = "running" =>
        /\ config.present
        /\ frame_watcher.min_frames_per_interval = GetMinFramesPerInterval(config)
        /\ frame_watcher.repeat.interval = config.interval

\* C19: a perform_check, completed or not, removes or freezes only entities
\* that are members of a pile it emitted: an entity that is static when the
\* pass starts, or that lies in no neighbourhood of more than
\* max_entities_per_pile non-static entities, is left as it was, whatever the
\* rules say about its classname; and no entity appears.
C19_OnlyPileMembersAreMitigated ==
    [][ (last_op'.op = "watch" /\ pass'.invoked /\ config.present) =>
            LET r == config.pile_radius
                max == config.max_entities_per_pile
                piled == UNION { Neighbourhood(a, world, r) :
                                     a \in OversizedAnchors(world, r, max) }
            IN /\ \A e \in world : (~NotStatic(e) \/ e \notin piled) => e \in world'
               /\ \A e \in world :
                      e \notin world' => e.index \in UNION PileSets(pass'.piles)
               /\ { e.index : e \in world' } \subseteq { e.index : e \in world }
      ]_vars

\* Two dynamic ABC entities were removed as a pile while a sleeping ABC entity
\* next to them, which the same rule matches, was left alone.
C19_Witness_SleepingNeighbourSpared ==
    /\ PassCompleted
    /\ entity_actions = RulesOne
    /\ Len(pass.handled) = 2
    /\ \E e \in world : /\ e.classname = ABC
                         /\ e.physics_object.asleep
                         /\ e.origin = P0
                         /\ e.index \notin SeqToSet(pass.evaluated)

=============================================================================
